---- MODULE Spec2Model ----
(***************************************************************************)
(* A model of pprm.py: the Probabilistic Phonological Relationship Model   *)
(* for German phone pairs.                                                 *)
(*                                                                         *)
(* Strings are sequences of characters, a character being a one-element    *)
(* TLA+ string ("a", ":", ".").  A non-ASCII character of the source is    *)
(* written by its code point ("U+0254").  A phone is therefore a non-empty *)
(* sequence of characters and a transcription is a sequence of characters  *)
(* in which "." separates the phones.                                      *)
(*                                                                         *)
(* Indices into a phone list are those of the source (0-based): position i *)
(* of the Python list `phones` is phones[i + 1] here.                      *)
(***************************************************************************)
EXTENDS Integers, Sequences, FiniteSets, TLC

VARIABLES
    pair,                 \* the (phoneX, phoneY, env_function) triple of the call
    df,                   \* the rows df.iterrows() has yielded so far
    phones,               \* phones of the row being scanned
    i,                    \* 0-based index of the next position of `phones`
    counts_type,          \* env -> phone -> number of types
    counts_token,         \* env -> phone -> summed frequency
    counts_type_tracker,  \* env -> phone -> set of words already counted
    total_types,
    total_tokens,
    env_entropies_type,   \* env -> H(env), in units of 1/1024 bit
    env_entropies_token,
    env_probs_type,       \* env -> p(env), a fraction [num, den]
    env_probs_token,
    result,               \* the returned dict, once pc = "done"
    pc,                   \* where pprm_for_pair stands
    cl_fn,                \* classifier calls: the classifier last called
    cl_phones,            \*   its phone list
    cl_i,                 \*   its index
    cl_label              \*   the label it returned

vars == <<pair, df, phones, i, counts_type, counts_token, counts_type_tracker,
          total_types, total_tokens, env_entropies_type, env_entropies_token,
          env_probs_type, env_probs_token, result, pc,
          cl_fn, cl_phones, cl_i, cl_label>>

aggVars == <<pair, df, phones, i, counts_type, counts_token, counts_type_tracker,
             total_types, total_tokens, env_entropies_type, env_entropies_token,
             env_probs_type, env_probs_token, result, pc>>

clVars == <<cl_fn, cl_phones, cl_i, cl_label>>

(***************************************************************************)
(* Bounds of the model.                                                    *)
(***************************************************************************)
MaxRows == 2      \* rows of a dataset
MaxPhones == 4    \* phones of a dataset, all its rows together
MaxFreq == 2      \* largest Frequency of a row
MaxSeqLen == 3    \* phones of a list handed to a classifier on its own

(***************************************************************************)
(* Strings.                                                                *)
(***************************************************************************)
\* str.startswith(prefix)
startswith(s, prefix) ==
    /\ Len(prefix) <= Len(s)
    /\ SubSeq(s, 1, Len(prefix)) = prefix

RECURSIVE SplitDot(_, _, _)
\* str.split('.'): the pieces between the dots, empty pieces included
SplitDot(s, cur, acc) ==
    IF s = <<>> THEN Append(acc, cur)
    ELSE IF Head(s) = "." THEN SplitDot(Tail(s), <<>>, Append(acc, cur))
    ELSE SplitDot(Tail(s), Append(cur, Head(s)), acc)

\* phone_sequence(cpsampa): split on '.', drop the empty tokens
phone_sequence(cpsampa) ==
    SelectSeq(SplitDot(cpsampa, <<>>, <<>>), LAMBDA t : t # <<>>)

RECURSIVE JoinDot(_)
\* '.'.join(tokens): how a transcription of the dataset is written
JoinDot(tokens) ==
    IF tokens = <<>> THEN <<>>
    ELSE IF Len(tokens) = 1 THEN Head(tokens)
    ELSE Head(tokens) \o <<".">> \o JoinDot(Tail(tokens))

(***************************************************************************)
(* Phone classifiers.                                                      *)
(***************************************************************************)
vowels ==
    { <<"a">>, <<"A">>, <<"e">>, <<"E">>, <<"i">>, <<"I">>, <<"o">>, <<"O">>,
      <<"u">>, <<"U">>, <<"y">>, <<"Y">>, <<"2">>, <<"9">>, <<"@">>, <<"3">>,
      <<"a", "I">>, <<"a", "U">>, <<"O", "Y">> }

\* Mutant: the whole phone is looked up, not its first character.
is_vowel_whole_phone(phone) == phone \in vowels

\* phone[0] in vowels: the first character, as a one-character string
is_vowel(phone) == <<phone[1]>> \in vowels

front_vowels ==
    { <<"i">>, <<"I">>, <<"e">>, <<"E">>, <<"y">>, <<"Y">>, <<"2">>, <<"9">>,
      <<"e", ":">>, <<"i", ":">>, <<"U+00F8">>, <<"U+0153">>, <<"U+00E6">> }

is_front_vowel(phone) == \E vf \in front_vowels : startswith(phone, vf)

back_vowels ==
    { <<"a">>, <<"A">>, <<"o">>, <<"O">>, <<"u">>, <<"U">>,
      <<"o", ":">>, <<"u", ":">>, <<"U+0254">>, <<"U+028A">>, <<"U+0251">> }

\* Mutant: the phone is looked up in the list, with no prefix match.
is_back_vowel_exact(phone) == phone \in back_vowels

is_back_vowel(phone) == \E vb \in back_vowels : startswith(phone, vb)

(***************************************************************************)
(* Environment classifiers.                                                *)
(***************************************************************************)
env_x_c(ps, k) ==
    IF k = 0 THEN "WordInitial"
    ELSE IF k = Len(ps) - 1
         THEN IF is_back_vowel(ps[k]) THEN "WordFinal_AfterBackVowel"
              ELSE "WordFinal_AfterFrontOrCons"
         ELSE IF is_back_vowel(ps[k]) THEN "Medial_AfterBackVowel"
              ELSE "Medial_AfterFrontOrCons"

\* Mutant: the word-final test comes before the word-initial one.
env_s_S_final_first(ps, k) ==
    IF k = Len(ps) - 1 THEN "WordFinal"
    ELSE IF k = 0
         THEN IF Len(ps) > 1 /\ ps[k + 2] \in { <<"p">>, <<"t">> }
              THEN "WordInitial_s_plus_stop"
              ELSE "WordInitial_s_alone"
    ELSE "WordMedial"

env_s_S(ps, k) ==
    IF k = 0
    THEN IF Len(ps) > 1 /\ ps[k + 2] \in { <<"p">>, <<"t">> }
         THEN "WordInitial_s_plus_stop"
         ELSE "WordInitial_s_alone"
    ELSE IF k = Len(ps) - 1 THEN "WordFinal"
    ELSE "WordMedial"

env_d_t(ps, k) ==
    IF k = 0 THEN "WordInitial"
    ELSE IF k = Len(ps) - 1 THEN "WordFinal"
    ELSE IF is_vowel(ps[k]) /\ is_vowel(ps[k + 2]) THEN "Intervocalic_V_V"
    ELSE "ClusterOrOther"

\* env_function(phones, i): the classifier the caller passed
env_function(f, ps, k) ==
    CASE f = "env_x_c" -> env_x_c(ps, k)
      [] f = "env_s_S" -> env_s_S(ps, k)
      [] f = "env_d_t" -> env_d_t(ps, k)

(***************************************************************************)
(* Entropy.  Probabilities are fractions [num, den] with den > 0; an       *)
(* entropy is an integer number of 1/1024 bits, log2 being computed in     *)
(* fixed point (ten fractional bits, truncated).                           *)
(***************************************************************************)
RECURSIVE FloorLog2(_)
FloorLog2(n) == IF n < 2 THEN 0 ELSE 1 + FloorLog2(n \div 2)

RECURSIVE FracBits(_, _)
\* the fractional bits of log2(m / 4096), for 4096 <= m < 8192
FracBits(m, bits) ==
    IF bits = 0 THEN 0
    ELSE LET sq == (m * m) \div 4096
         IN  IF sq >= 8192 THEN 2 ^ (bits - 1) + FracBits(sq \div 2, bits - 1)
             ELSE FracBits(sq, bits - 1)

\* math.log2(n) for an integer n >= 1, in 1/1024
Log2Fix(n) ==
    LET k == FloorLog2(n)
    IN  k * 1024 + FracBits((n * 4096) \div (2 ^ k), 10)

\* -= prob * math.log2(prob), taken only when prob > 0
EntropyTerm(prob) ==
    IF prob.num > 0
    THEN (prob.num * (Log2Fix(prob.den) - Log2Fix(prob.num))) \div prob.den
    ELSE 0

shannon_entropy(prob1, prob2) == EntropyTerm(prob1) + EntropyTerm(prob2)

\* a / b of two counts, b # 0
Fraction(a, b) == [num |-> a, den |-> b]

\* 1 - p
OneMinus(p) == [num |-> p.den - p.num, den |-> p.den]

(***************************************************************************)
(* The calls of main() and the rows of the dataset.                        *)
(***************************************************************************)
Pairs ==
    { [phoneX |-> <<"x">>, phoneY |-> <<"C">>, env |-> "env_x_c"],
      [phoneX |-> <<"s">>, phoneY |-> <<"S">>, env |-> "env_s_S"],
      [phoneX |-> <<"d">>, phoneY |-> <<"t">>, env |-> "env_d_t"] }

Words == {"w1", "w2"}

Frequencies == 0 .. MaxFreq

\* The phones the transcriptions of a call's dataset are written with: the
\* two phones of the pair and one phone that is neither (a back vowel for
\* the x/C and d/t calls, a stop for the s/S call).
DatasetPhones(p) ==
    {p.phoneX, p.phoneY} \cup (IF p.env = "env_s_S" THEN { <<"p">> } ELSE { <<"a">> })

\* The Phono strings of a call's dataset: up to n phones joined by '.'
Phonos(p, n) ==
    { JoinDot(ps) : ps \in UNION { [1 .. m -> DatasetPhones(p)] : m \in 0 .. n } }

RECURSIVE PhoneCount(_)
\* The phones of the rows of d, all together.
PhoneCount(d) ==
    IF d = <<>> THEN 0
    ELSE Len(phone_sequence(Head(d).Phono)) + PhoneCount(Tail(d))

(***************************************************************************)
(* pprm_for_pair: the scan.                                                *)
(***************************************************************************)
EmptyMap == [e \in {} |-> 0]

\* ph == phoneX or ph == phoneY
IsTarget(p, ph) == ph = p.phoneX \/ ph = p.phoneY

Put(m, k, v) == [x \in DOMAIN m \cup {k} |-> IF x = k THEN v ELSE m[x]]

\* ensure_env(env): the three entries of an environment not yet seen
ensure_env(st, p, env) ==
    IF env \notin DOMAIN st.counts_type
    THEN [counts_type |->
              Put(st.counts_type, env, [ph \in {p.phoneX, p.phoneY} |-> 0]),
          counts_token |->
              Put(st.counts_token, env, [ph \in {p.phoneX, p.phoneY} |-> 0]),
          counts_type_tracker |->
              Put(st.counts_type_tracker, env, [ph \in {p.phoneX, p.phoneY} |-> {}])]
    ELSE st

\* Mutant: the tracker is not consulted, every occurrence counts as a type.
NotYetCounted_always(tracker, env, ph, word) == TRUE

\* Mutant: the tracker check is inverted, no occurrence counts as a type.
NotYetCounted_never(tracker, env, ph, word) == FALSE

\* word_str not in counts_type_tracker[env_label][ph]
NotYetCounted(tracker, env, ph, word) == word \notin tracker[env][ph]

\* Mutant: `=` for `+=`, the frequency overwrites the running sum.
AddToken_assign(count, freq) == freq

\* counts_token[env_label][ph] += freq
AddToken(count, freq) == count + freq

\* The body of the inner loop for one position whose phone is a target.
Occurrence(st, p, word, ph, env_label, freq) ==
    LET s1 == ensure_env(st, p, env_label)
        fresh == NotYetCounted(s1.counts_type_tracker, env_label, ph, word)
    IN  [counts_type |->
             IF fresh
             THEN [s1.counts_type EXCEPT ![env_label][ph] = @ + 1]
             ELSE s1.counts_type,
         counts_type_tracker |->
             IF fresh
             THEN [s1.counts_type_tracker EXCEPT ![env_label][ph] = @ \cup {word}]
             ELSE s1.counts_type_tracker,
         counts_token |->
             [s1.counts_token EXCEPT ![env_label][ph] = AddToken(@, freq)]]

\* Mutant: ensure_env is called before the phone is tested, so a phone that
\* is no target creates its environment too.
Position_eager(st, p, word, ps, k, freq) ==
    IF IsTarget(p, ps[k + 1])
    THEN Occurrence(st, p, word, ps[k + 1], env_function(p.env, ps, k), freq)
    ELSE ensure_env(st, p, env_function(p.env, ps, k))

\* One iteration of `for i, ph in enumerate(phones)`.
Position(st, p, word, ps, k, freq) ==
    IF IsTarget(p, ps[k + 1])
    THEN Occurrence(st, p, word, ps[k + 1], env_function(p.env, ps, k), freq)
    ELSE st

RECURSIVE ScanRow(_, _, _, _, _)
\* The inner loop over the positions k .. len(phones) - 1 of one row.
ScanRow(st, p, row, ps, k) ==
    IF k >= Len(ps) THEN st
    ELSE ScanRow(Position(st, p, row.Word, ps, k, row.Frequency), p, row, ps, k + 1)

RECURSIVE ScanRows(_, _, _)
\* The outer loop over the rows of d.
ScanRows(st, p, d) ==
    IF d = <<>> THEN st
    ELSE ScanRows(ScanRow(st, p, Head(d), phone_sequence(Head(d).Phono), 0),
                  p, Tail(d))

\* The three dicts before the scan.
NoCounts == [counts_type |-> [e \in {} |-> 0], counts_token |-> [e \in {} |-> 0],
             counts_type_tracker |-> [e \in {} |-> 0]]

Counts == [counts_type |-> counts_type, counts_token |-> counts_token,
           counts_type_tracker |-> counts_type_tracker]

(***************************************************************************)
(* pprm_for_pair: totals, entropies per environment, overall entropies.    *)
(***************************************************************************)
RECURSIVE SumFn(_)
\* the sum of the values of a function with a finite domain
SumFn(f) ==
    IF DOMAIN f = {} THEN 0
    ELSE LET x == CHOOSE y \in DOMAIN f : TRUE
         IN  f[x] + SumFn([y \in DOMAIN f \ {x} |-> f[y]])

\* counts[env][phoneX] + counts[env][phoneY]
Combined(counts, p, env) == counts[env][p.phoneX] + counts[env][p.phoneY]

\* total_types, total_tokens
Total(counts, p) == SumFn([env \in DOMAIN counts |-> Combined(counts, p, env)])

\* Mutant: the guard is dropped.
Qualifies_always(X, Y) == TRUE

\* Mutant: the guard looks at phoneX alone.
Qualifies_X_only(X, Y) == X > 0

\* if (X + Y) > 0
Qualifies(X, Y) == (X + Y) > 0

\* The environments of `for env in counts_type` whose branch is taken.
Entering(keys, counts, p) ==
    {env \in keys : Qualifies(counts[env][p.phoneX], counts[env][p.phoneY])}

\* The divisors of the divisions the loop evaluates for one scheme.
Divisors(keys, counts, p, total) ==
    UNION { {Combined(counts, p, env), total} : env \in Entering(keys, counts, p) }

\* env_entropies_*: pX = X / (X + Y), pY = 1 - pX, H = shannon_entropy(pX, pY)
Entropies(keys, counts, p) ==
    [env \in Entering(keys, counts, p) |->
        LET pX == Fraction(counts[env][p.phoneX], Combined(counts, p, env))
        IN  shannon_entropy(pX, OneMinus(pX))]

\* env_probs_*: (X + Y) / total
Probs(keys, counts, p, total) ==
    [env \in Entering(keys, counts, p) |-> Fraction(Combined(counts, p, env), total)]

\* overall_entropy_*: the sum of env_probs[env] * env_entropies[env]
Overall(probs, entropies) ==
    SumFn([env \in DOMAIN entropies |->
              (probs[env].num * entropies[env]) \div probs[env].den])

\* f"[{phoneX}]~[{phoneY}]"
PairLabel(p) == <<"[">> \o p.phoneX \o <<"]", "~", "[">> \o p.phoneY \o <<"]">>

(***************************************************************************)
(* The state machine of one call of pprm_for_pair.                         *)
(***************************************************************************)
Init ==
    /\ pair \in Pairs
    /\ df = <<>>
    /\ phones = <<>>
    /\ i = 0
    /\ counts_type = EmptyMap
    /\ counts_token = EmptyMap
    /\ counts_type_tracker = EmptyMap
    /\ total_types = 0
    /\ total_tokens = 0
    /\ env_entropies_type = EmptyMap
    /\ env_entropies_token = EmptyMap
    /\ env_probs_type = EmptyMap
    /\ env_probs_token = EmptyMap
    /\ result = EmptyMap
    /\ pc = "scan"
    /\ cl_fn = "none"
    /\ cl_phones = <<>>
    /\ cl_i = 0
    /\ cl_label = "none"

\* df.iterrows() yields the next row; its transcription is tokenized.
NextRow ==
    /\ pc = "scan"
    /\ i = Len(phones)
    /\ Len(df) < MaxRows
    /\ \E word \in Words, phono \in Phonos(pair, MaxPhones - PhoneCount(df)),
          freq \in Frequencies :
          /\ df' = Append(df, [Word |-> word, Phono |-> phono, Frequency |-> freq])
          /\ phones' = phone_sequence(phono)
    /\ i' = 0
    /\ UNCHANGED <<pair, counts_type, counts_token, counts_type_tracker,
                   total_types, total_tokens, env_entropies_type,
                   env_entropies_token, env_probs_type, env_probs_token,
                   result, pc, clVars>>

\* One iteration of the inner loop, on position i of the current row.
ScanPhone ==
    /\ pc = "scan"
    /\ i < Len(phones)
    /\ LET row == df[Len(df)]
           st == Position(Counts, pair, row.Word, phones, i, row.Frequency)
       IN  /\ counts_type' = st.counts_type
           /\ counts_token' = st.counts_token
           /\ counts_type_tracker' = st.counts_type_tracker
    /\ i' = i + 1
    /\ UNCHANGED <<pair, df, phones, total_types, total_tokens,
                   env_entropies_type, env_entropies_token, env_probs_type,
                   env_probs_token, result, pc, clVars>>

\* The rows are exhausted: total_types and total_tokens.
ComputeTotals ==
    /\ pc = "scan"
    /\ i = Len(phones)
    /\ total_types' = Total(counts_type, pair)
    /\ total_tokens' = Total(counts_token, pair)
    /\ pc' = "entropies"
    /\ UNCHANGED <<pair, df, phones, i, counts_type, counts_token,
                   counts_type_tracker, env_entropies_type, env_entropies_token,
                   env_probs_type, env_probs_token, result, clVars>>

\* The loop over the environments; a division by zero raises.
ComputeEntropies ==
    /\ pc = "entropies"
    /\ IF 0 \in Divisors(DOMAIN counts_type, counts_type, pair, total_types)
              \cup Divisors(DOMAIN counts_type, counts_token, pair, total_tokens)
       THEN /\ pc' = "ZeroDivisionError"
            /\ UNCHANGED <<env_entropies_type, env_entropies_token,
                           env_probs_type, env_probs_token>>
       ELSE /\ env_entropies_type' = Entropies(DOMAIN counts_type, counts_type, pair)
            /\ env_probs_type' =
                   Probs(DOMAIN counts_type, counts_type, pair, total_types)
            /\ env_entropies_token' =
                   Entropies(DOMAIN counts_type, counts_token, pair)
            /\ env_probs_token' =
                   Probs(DOMAIN counts_type, counts_token, pair, total_tokens)
            /\ pc' = "overall"
    /\ UNCHANGED <<pair, df, phones, i, counts_type, counts_token,
                   counts_type_tracker, total_types, total_tokens, result, clVars>>

\* The overall entropies and the returned dict.
Return ==
    /\ pc = "overall"
    /\ result' =
          [pair |-> PairLabel(pair),
           type_entropy |-> Overall(env_probs_type, env_entropies_type),
           token_entropy |-> Overall(env_probs_token, env_entropies_token),
           env_type_counts |-> counts_type,
           env_token_counts |-> counts_token,
           env_type_entropies |-> env_entropies_type,
           env_token_entropies |-> env_entropies_token,
           env_type_probs |-> env_probs_type,
           env_token_probs |-> env_probs_token]
    /\ pc' = "done"
    /\ UNCHANGED <<pair, df, phones, i, counts_type, counts_token,
                   counts_type_tracker, total_types, total_tokens,
                   env_entropies_type, env_entropies_token, env_probs_type,
                   env_probs_token, clVars>>

Next == NextRow \/ ScanPhone \/ ComputeTotals \/ ComputeEntropies \/ Return

Spec == Init /\ [][Next]_vars

\* The datasets a call can be given: up to MaxRows rows, MaxPhones phones.
Datasets(p) ==
    { d \in UNION { [1 .. n -> [Word : Words, Phono : Phonos(p, MaxPhones),
                                Frequency : Frequencies]] : n \in 0 .. MaxRows } :
         PhoneCount(d) <= MaxPhones }

(***************************************************************************)
(* The classifiers called on their own, on any phone list and index.       *)
(***************************************************************************)
\* Phones of one and of several characters: back, front and neutral vowels,
\* a back vowel whose first character is no vowel of is_vowel, the two
\* stops of env_s_S and another consonant.
ClassifierPhones ==
    { <<"a">>, <<"o", ":">>, <<"a", "U">>, <<"I">>, <<"@">>, <<"U+0254">>,
      <<"p">>, <<"t">>, <<"n">> }

PhoneLists == UNION { [1 .. n -> ClassifierPhones] : n \in 1 .. MaxSeqLen }

Classify(f) ==
    /\ cl_fn = "none"
    /\ pair.env = f
    /\ \E ps \in PhoneLists, k \in 0 .. MaxSeqLen - 1 :
          /\ k < Len(ps)
          /\ cl_phones' = ps
          /\ cl_i' = k
          /\ cl_label' = env_function(f, ps, k)
    /\ cl_fn' = f
    /\ UNCHANGED aggVars

Call_env_x_c == Classify("env_x_c")

Call_env_s_S == Classify("env_s_S")

Call_env_d_t == Classify("env_d_t")

NextEnv == Call_env_x_c \/ Call_env_s_S \/ Call_env_d_t

SpecEnv == Init /\ [][NextEnv]_vars

(***************************************************************************)
(* What has been scanned so far, read from the rows themselves.            *)
(***************************************************************************)
Targets == {pair.phoneX, pair.phoneY}

\* The positions of row r the scan has been through, each with its phone,
\* its environment and the Word and Frequency of its row.
RowScanned(r) ==
    LET ps == phone_sequence(df[r].Phono)
    IN  { [row |-> r, idx |-> k, ph |-> ps[k + 1],
           env |-> env_function(pair.env, ps, k),
           word |-> df[r].Word, freq |-> df[r].Frequency] :
          k \in { j \in 0 .. Len(ps) - 1 : r < Len(df) \/ j < i } }

Scanned == UNION { RowScanned(r) : r \in 1 .. Len(df) }

\* The positions of `scanned` that hold phone ph and are classified env.
Hits(scanned, env, ph) == { o \in scanned : o.ph = ph /\ o.env = env }

\* The labels the classifier of the call can return.
Labels ==
    CASE pair.env = "env_x_c" ->
            { "WordInitial", "WordFinal_AfterBackVowel",
              "WordFinal_AfterFrontOrCons", "Medial_AfterBackVowel",
              "Medial_AfterFrontOrCons" }
      [] pair.env = "env_s_S" ->
            { "WordInitial_s_plus_stop", "WordInitial_s_alone", "WordFinal",
              "WordMedial" }
      [] pair.env = "env_d_t" ->
            { "WordInitial", "WordFinal", "Intervocalic_V_V", "ClusterOrOther" }

TypeCountOf(env, ph) ==
    IF env \in DOMAIN counts_type THEN counts_type[env][ph] ELSE 0

TokenCountOf(env, ph) ==
    IF env \in DOMAIN counts_token THEN counts_token[env][ph] ELSE 0

(***************************************************************************)
(* C1.  After any prefix of the scan, for every environment e and target   *)
(* phone p, counts_type[e][p] is the number of distinct Words with at      *)
(* least one occurrence of p classified e so far: a repeated occurrence    *)
(* of the same (environment, phone, word), in the same row or in a later   *)
(* row with the same Word, adds nothing; one in another environment or of  *)
(* the other phone adds one.                                               *)
(***************************************************************************)
C1_TypeCountIsDistinctWords ==
    LET scanned == Scanned
    IN  \A env \in Labels \cup DOMAIN counts_type : \A ph \in Targets :
            TypeCountOf(env, ph) =
                Cardinality({ o.word : o \in Hits(scanned, env, ph) })

\* Two rows with the same Word each hold phoneX in one environment, counted
\* once, and that word is counted again in another cell.
C1_Witness ==
    /\ pc = "done"
    /\ \E env \in DOMAIN counts_type :
          /\ \E o1, o2 \in Hits(Scanned, env, pair.phoneX) :
                o1.row # o2.row /\ o1.word = o2.word
          /\ counts_type[env][pair.phoneX] = 1
          /\ \E e2 \in DOMAIN counts_type, ph \in Targets :
                /\ <<e2, ph>> # <<env, pair.phoneX>>
                /\ counts_type[e2][ph] = 1
                /\ \E o3 \in Hits(Scanned, e2, ph) : o3.word = df[1].Word

(***************************************************************************)
(* C2.  For every environment e and target phone p, counts_token[e][p] is  *)
(* the sum of the row's Frequency over every scanned position holding p    *)
(* and classified e, with no de-duplication: a word in which p occurs k    *)
(* times in e adds k times its frequency, and one to the type count.       *)
(***************************************************************************)
C2_TokenCountIsSumOfFrequencies ==
    LET scanned == Scanned
    IN  \A env \in Labels \cup DOMAIN counts_token : \A ph \in Targets :
            TokenCountOf(env, ph) =
                SumFn([o \in Hits(scanned, env, ph) |-> o.freq])

\* One row of frequency 2 holds phoneX twice in one environment: token
\* count 4, type count 1.
C2_Witness ==
    /\ pc = "done"
    /\ Len(df) = 1
    /\ df[1].Frequency = 2
    /\ \E env \in DOMAIN counts_token :
          /\ Cardinality(Hits(Scanned, env, pair.phoneX)) = 2
          /\ counts_token[env][pair.phoneX] = 4
          /\ counts_type[env][pair.phoneX] = 1

(***************************************************************************)
(* C3.  When neither phone of the pair occurs in any row, so that          *)
(* total_types = 0 and total_tokens = 0, the result marks both overall     *)
(* entropies undefined, by a value that is no number, and no division      *)
(* faults.                                                                 *)
(***************************************************************************)
NoOccurrence == \A o \in Scanned : o.ph \notin Targets

C3_NoDataMarkedUndefined ==
    (pc = "done" /\ NoOccurrence /\ total_types = 0 /\ total_tokens = 0)
        => (result.type_entropy \notin Int /\ result.token_entropy \notin Int)

(***************************************************************************)
(* C4.  In the result, with frequencies >= 0: if total_types > 0 the       *)
(* combined type counts of the environments that have an entry in          *)
(* env_probs_type sum to total_types, so the type weights sum to 1; and    *)
(* likewise for the token counts, env_probs_token and total_tokens.        *)
(***************************************************************************)
WeightsSumToOne(probs, counts, total) ==
    total > 0 =>
        /\ SumFn([env \in DOMAIN probs |-> Combined(counts, pair, env)]) = total
        /\ \A env \in DOMAIN probs :
              /\ probs[env].den = total
              /\ probs[env].num = Combined(counts, pair, env)
        /\ SumFn([env \in DOMAIN probs |-> probs[env].num]) = total

C4_WeightsSumToOne ==
    pc = "done" =>
        /\ WeightsSumToOne(result.env_type_probs, result.env_type_counts,
                           total_types)
        /\ WeightsSumToOne(result.env_token_probs, result.env_token_counts,
                           total_tokens)

\* A result with two weighted environments in each scheme and one more
\* environment, of frequency 0, that has a type weight and no token weight.
C4_Witness ==
    /\ pc = "done"
    /\ total_tokens > 0
    /\ Cardinality(DOMAIN result.env_token_probs) = 2
    /\ Cardinality(DOMAIN result.env_type_probs) = 3

(***************************************************************************)
(* C5.  As claimed: after every iteration of the scan and in the result,   *)
(* every environment of the type-count map has X_type + Y_type > 0 and     *)
(* every environment of the token-count map has X_token + Y_token > 0.     *)
(***************************************************************************)
C5_NoAllZeroEntry ==
    /\ \A env \in DOMAIN counts_type : Combined(counts_type, pair, env) > 0
    /\ \A env \in DOMAIN counts_token : Combined(counts_token, pair, env) > 0

(***************************************************************************)
(* C5, amended.  After every iteration of the scan and in the result,      *)
(* every environment of the type-count map has X_type + Y_type > 0; the    *)
(* token-count map has the same environments, and one of them has          *)
(* X_token + Y_token > 0 exactly when some occurrence classified into it   *)
(* belongs to a row of Frequency > 0 (it is 0 when all have Frequency 0).  *)
(***************************************************************************)
C5_NoAllZeroTypeEntry ==
    LET scanned == Scanned
    IN  /\ \A env \in DOMAIN counts_type : Combined(counts_type, pair, env) > 0
        /\ DOMAIN counts_token = DOMAIN counts_type
        /\ DOMAIN counts_type_tracker = DOMAIN counts_type
        /\ \A env \in DOMAIN counts_token :
              /\ Combined(counts_token, pair, env) >= 0
              /\ Combined(counts_token, pair, env) > 0
                    <=> \E o \in scanned :
                           o.env = env /\ o.ph \in Targets /\ o.freq > 0

\* In the middle of the scan, an environment created by a row of Frequency 0
\* beside one created by a row of Frequency > 0.
C5_Witness ==
    /\ pc = "scan"
    /\ i < Len(phones)
    /\ \E e1, e2 \in DOMAIN counts_token :
          /\ Combined(counts_token, pair, e1) = 0
          /\ Combined(counts_type, pair, e1) > 0
          /\ Combined(counts_token, pair, e2) > 0

(***************************************************************************)
(* C9.  As claimed, over the datasets of a call: some dataset gives an     *)
(* environment a type entropy without a token entropy, and some dataset    *)
(* gives an environment a token entropy without a type entropy.            *)
(***************************************************************************)
TypeEntropyOnly(st, p) ==
    Entering(DOMAIN st.counts_type, st.counts_type, p)
        \ Entering(DOMAIN st.counts_type, st.counts_token, p) # {}

TokenEntropyOnly(st, p) ==
    Entering(DOMAIN st.counts_type, st.counts_token, p)
        \ Entering(DOMAIN st.counts_type, st.counts_type, p) # {}

C9_EitherWithoutTheOther ==
    pc = "done" =>
        /\ \E d \in Datasets(pair) : TypeEntropyOnly(ScanRows(NoCounts, pair, d), pair)
        /\ \E d \in Datasets(pair) : TokenEntropyOnly(ScanRows(NoCounts, pair, d), pair)

(***************************************************************************)
(* C9, amended.  Each scheme admits an environment on its own combined     *)
(* count alone, and an environment can receive a type entropy without a    *)
(* token entropy (all its occurrences have Frequency 0); but none receives *)
(* a token entropy without a type entropy, since every environment of the  *)
(* count maps has a combined type count > 0.                               *)
(***************************************************************************)
C9_TokenEntropyImpliesTypeEntropy ==
    pc \in {"overall", "done"} =>
        /\ DOMAIN env_entropies_type =
              {env \in DOMAIN counts_type : Combined(counts_type, pair, env) > 0}
        /\ DOMAIN env_entropies_token =
              {env \in DOMAIN counts_type : Combined(counts_token, pair, env) > 0}
        /\ DOMAIN env_entropies_token \subseteq DOMAIN env_entropies_type
        /\ DOMAIN env_probs_type = DOMAIN env_entropies_type
        /\ DOMAIN env_probs_token = DOMAIN env_entropies_token

\* A result in which an environment has a type entropy and no token entropy,
\* beside one that has both.
C9_Witness ==
    /\ pc = "done"
    /\ DOMAIN result.env_type_entropies \ DOMAIN result.env_token_entropies # {}
    /\ DOMAIN result.env_token_entropies # {}

(***************************************************************************)
(* C10.  With frequencies >= 0 no division of pprm_for_pair has a zero     *)
(* divisor: every X + Y and every total the loop divides by is > 0, so no  *)
(* call raises and each returns a result.                                  *)
(***************************************************************************)
C10_NoZeroDivisor ==
    /\ pc \in {"scan", "entropies", "overall", "done"}
    /\ pc = "scan" => i <= Len(phones)
    /\ pc = "entropies" =>
          \A n \in Divisors(DOMAIN counts_type, counts_type, pair, total_types)
                     \cup Divisors(DOMAIN counts_type, counts_token, pair,
                                   total_tokens) : n > 0
    /\ pc \in {"overall", "done"} =>
          \A env \in DOMAIN env_probs_type \cup DOMAIN env_probs_token :
              /\ env \in DOMAIN env_probs_type => env_probs_type[env].den > 0
              /\ env \in DOMAIN env_probs_token => env_probs_token[env].den > 0

\* A call returns although every contributing row has Frequency 0: the
\* environments have type counts, total_tokens is 0 and nothing is divided
\* by it.
C10_Witness ==
    /\ pc = "done"
    /\ total_types > 0
    /\ total_tokens = 0
    /\ DOMAIN result.env_token_probs = {}
    /\ DOMAIN result.env_type_probs # {}

(***************************************************************************)
(* C6.  For every non-empty phone list and valid index i, env_s_S returns  *)
(* one of four labels: at i = 0, WordInitial_s_plus_stop when a phone at   *)
(* index 1 exists and is 'p' or 't', else WordInitial_s_alone; at the last *)
(* index when i > 0, WordFinal; otherwise WordMedial.  A one-phone word is *)
(* WordInitial_s_alone, never WordFinal.                                   *)
(***************************************************************************)
C6_env_s_S_Table ==
    cl_fn = "env_s_S" =>
        LET last == Len(cl_phones) - 1
        IN  /\ cl_label \in { "WordInitial_s_plus_stop", "WordInitial_s_alone",
                              "WordFinal", "WordMedial" }
            /\ cl_i = 0 =>
                  cl_label =
                     IF last >= 1 /\ (cl_phones[2] = <<"p">> \/ cl_phones[2] = <<"t">>)
                     THEN "WordInitial_s_plus_stop"
                     ELSE "WordInitial_s_alone"
            /\ (cl_i > 0 /\ cl_i = last) => cl_label = "WordFinal"
            /\ (cl_i > 0 /\ cl_i < last) => cl_label = "WordMedial"
            /\ last = 0 => cl_label = "WordInitial_s_alone"

\* env_s_S has classified the only phone of a one-phone word.
C6_Witness ==
    /\ cl_fn = "env_s_S"
    /\ Len(cl_phones) = 1
    /\ cl_i = 0
    /\ cl_label = "WordInitial_s_alone"

(***************************************************************************)
(* C7.  For every non-empty phone list and valid index i, env_x_c returns  *)
(* one of five labels: WordInitial at i = 0, also in a one-phone word; at  *)
(* the last index when i > 0, WordFinal_AfterBackVowel if phones[i-1]      *)
(* starts with an entry of the back-vowel list and                         *)
(* WordFinal_AfterFrontOrCons if not; in between, Medial_AfterBackVowel    *)
(* or Medial_AfterFrontOrCons by the same test.  A preceding phone the     *)
(* list does not know is no back vowel.                                    *)
(***************************************************************************)
StartsWithBackVowel(phone) ==
    \E vb \in back_vowels :
        /\ Len(vb) <= Len(phone)
        /\ \A j \in 1 .. Len(vb) : phone[j] = vb[j]

C7_env_x_c_Table ==
    cl_fn = "env_x_c" =>
        LET last == Len(cl_phones) - 1
            prev == cl_phones[cl_i]
        IN  /\ cl_label \in { "WordInitial", "WordFinal_AfterBackVowel",
                              "WordFinal_AfterFrontOrCons",
                              "Medial_AfterBackVowel", "Medial_AfterFrontOrCons" }
            /\ cl_i = 0 => cl_label = "WordInitial"
            /\ (cl_i > 0 /\ cl_i = last) =>
                  cl_label = IF StartsWithBackVowel(prev)
                             THEN "WordFinal_AfterBackVowel"
                             ELSE "WordFinal_AfterFrontOrCons"
            /\ (cl_i > 0 /\ cl_i < last) =>
                  cl_label = IF StartsWithBackVowel(prev)
                             THEN "Medial_AfterBackVowel"
                             ELSE "Medial_AfterFrontOrCons"
            /\ (cl_i > 0 /\ prev \in { <<"n">>, <<"p">>, <<"t">>, <<"@">> }) =>
                  cl_label \in { "WordFinal_AfterFrontOrCons",
                                 "Medial_AfterFrontOrCons" }

\* env_x_c has classified a last position that follows the diphthong "aU",
\* a back vowel by its prefix "a" only.
C7_Witness ==
    /\ cl_fn = "env_x_c"
    /\ cl_i > 0
    /\ cl_i = Len(cl_phones) - 1
    /\ cl_phones[cl_i] = <<"a", "U">>
    /\ cl_label = "WordFinal_AfterBackVowel"

(***************************************************************************)
(* C8.  For every non-empty phone list and valid index i, env_d_t returns  *)
(* one of four labels: WordInitial at i = 0, also in a one-phone word;     *)
(* WordFinal at the last index when i > 0; in between, Intervocalic_V_V    *)
(* exactly when the first characters of phones[i-1] and of phones[i+1]     *)
(* are both in the single-character vowel set, otherwise ClusterOrOther.   *)
(***************************************************************************)
VowelCharacters ==
    { "a", "A", "e", "E", "i", "I", "o", "O", "u", "U", "y", "Y", "2", "9",
      "@", "3" }

C8_env_d_t_Table ==
    cl_fn = "env_d_t" =>
        LET last == Len(cl_phones) - 1
        IN  /\ cl_label \in { "WordInitial", "WordFinal", "Intervocalic_V_V",
                              "ClusterOrOther" }
            /\ cl_i = 0 => cl_label = "WordInitial"
            /\ (cl_i > 0 /\ cl_i = last) => cl_label = "WordFinal"
            /\ (cl_i > 0 /\ cl_i < last) =>
                  /\ cl_label \in { "Intervocalic_V_V", "ClusterOrOther" }
                  /\ cl_label = "Intervocalic_V_V" <=>
                        /\ cl_phones[cl_i][1] \in VowelCharacters
                        /\ cl_phones[cl_i + 2][1] \in VowelCharacters

\* env_d_t has classified a medial position between "o:" and "a": both are
\* vowels by their first character.
C8_Witness ==
    /\ cl_fn = "env_d_t"
    /\ Len(cl_phones) = 3
    /\ cl_i = 1
    /\ cl_phones[1] = <<"o", ":">>
    /\ cl_phones[3] = <<"a">>
    /\ cl_label = "Intervocalic_V_V"

====
